---- MODULE Spec2Model ----
(***************************************************************************)
(* Memory Board engine of Avatar_EDU: per-session Insight extraction, the  *)
(* compression trigger, the frequency aggregation of each module and the   *)
(* Memory Board update (src/app/services/memory_service.py), together with *)
(* the Summarizer adapter (src/app/api/openai_client.py) and the session   *)
(* completion handlers that drive them.                                    *)
(*                                                                         *)
(* The database is the pair (boards, insights).  Every operation of the    *)
(* service is written as a function from a database value to a database    *)
(* value, one function per db.session.commit() of the code, so that the    *)
(* same definitions give the whole-handler actions of Spec and the         *)
(* commit-by-commit actions of SpecFault and SpecConc.                     *)
(***************************************************************************)
EXTENDS Integers, Sequences, FiniteSets, TLC

VARIABLES boards, insights, clock, scope, op, procs, agg

vars == <<boards, insights, clock, scope, op, procs, agg>>

(***************************************************************************)
(* Program constants                                                       *)
(***************************************************************************)
COMPRESSION_THRESHOLD == 5

MAX_UNCOMPRESSED_INSIGHTS == 10

TopN == 10

Modules == {"reading", "listening", "speaking", "writing", "conversation"}

(***************************************************************************)
(* Bounds of the model                                                     *)
(***************************************************************************)
\* insights extracted per behaviour (for the one (student, module) in scope)
MaxInsights == 5

\* insights extracted per behaviour of SpecFault and SpecConc
MaxStepInsights == 2

\* insights in a batch handed to the aggregator in SpecAgg
MaxBatch == 3

Students == {1, 2}

Procs == {1, 2}

\* ids of the rows of the session tables; id 0 references no row
SessionIds == {1, 2, 3}

\* two more rows of each session table: a completed session with NULL
\* columns (NullSession) and a session still in progress (OpenSession)
NullSession == 4

OpenSession == 5

EdgeSessionIds == {NullSession, OpenSession}

\* a NULL column where 0 is a value of its own; a NULL question text
Null == -1

NullText == {"NULL"}

NoSession == 0

(***************************************************************************)
(* Python list / dict idioms used by the aggregation code                  *)
(***************************************************************************)
Min(a, b) == IF a < b THEN a ELSE b

\* lst[:n]
Take(lst, n) == SubSeq(lst, 1, Min(n, Len(lst)))

\* [f(x) for x in lst]: here the projection of a field
RECURSIVE Concat(_)
Concat(lists) ==
    IF lists = <<>> THEN <<>> ELSE Head(lists) \o Concat(Tail(lists))

Range(lst) == {lst[i] : i \in DOMAIN lst}

\* keys of a dict filled by one pass over lst, in insertion order
\* (dict.items() iterates in insertion order); falsy keys are skipped
\* by the `if key:` guards of the code
RECURSIVE DictKeys(_, _)
DictKeys(lst, seen) ==
    IF lst = <<>> THEN <<>>
    ELSE IF Head(lst) \in seen
         THEN DictKeys(Tail(lst), seen)
         ELSE <<Head(lst)>> \o DictKeys(Tail(lst), seen \cup {Head(lst)})

\* d[k] = d.get(k, 0) + 1 over lst: the number of occurrences of k in lst
Occurrences(lst, k) == Cardinality({i \in DOMAIN lst : lst[i] = k})

\* sorted(lst, key=lambda x: x['frequency'], reverse=True): stable
RECURSIVE InsertDesc(_, _)
InsertDesc(x, sorted) ==
    IF sorted = <<>> THEN <<x>>
    ELSE IF Head(sorted).frequency >= x.frequency
         THEN <<Head(sorted)>> \o InsertDesc(x, Tail(sorted))
         ELSE <<x>> \o sorted

RECURSIVE SortedDesc(_)
SortedDesc(lst) ==
    IF lst = <<>> THEN <<>>
    ELSE InsertDesc(lst[Len(lst)], SortedDesc(SubSeq(lst, 1, Len(lst) - 1)))

(***************************************************************************)
(* Compressed payloads.  A payload is the JSON object a compression run    *)
(* stores in a module slot of the Memory Board; {} is EmptyPayload.  The   *)
(* summary is None, the Summarizer's text, the literal "Analysis complete" *)
(* or the per-module "Analyzed N sessions. ..." string of the except       *)
(* branch, which is determined by the module and N.                        *)
(***************************************************************************)
EmptyPayload == [empty |-> TRUE]

NoSummary == [kind |-> "none", n |-> 0, text |-> ""]

AnalysisComplete == [kind |-> "analysis_complete", n |-> 0, text |-> ""]

AnalyzedNSessions(n) == [kind |-> "analyzed_n_sessions", n |-> n, text |-> ""]

AiText(t) == [kind |-> "ai", n |-> 0, text |-> t]

\* "high" if count >= 3 else "medium"
Priority(count) == IF count >= 3 THEN "high" ELSE "medium"

\* "high" if count >= 2 else "medium"   (conversation lists)
PriorityConversation(count) == IF count >= 2 THEN "high" ELSE "medium"

\* x.get('word', '').lower() over the vocabulary of the model
Lower(w) ==
    CASE w = "World" -> "world"
      [] w = "Comfortable" -> "comfortable"
      [] OTHER -> w

\* the non-empty keys of a flattened list, in dict insertion order
KeysOf(keys) == DictKeys(SelectSeq(keys, LAMBDA k : k # ""), {})

Project(lst, F(_)) == [i \in DOMAIN lst |-> F(lst[i])]

RECURSIVE SumSeq(_)
SumSeq(lst) == IF lst = <<>> THEN 0 ELSE Head(lst) + SumSeq(Tail(lst))

\* sum(accuracies) / len(accuracies), kept as an exact fraction
Mean(nums) == [num |-> SumSeq(nums), den |-> Len(nums)]

\* {key: count} lists: [{name: k, frequency, priority} for k, count in d.items() if count >= least]
CountedList(keys, least, Prio(_)) ==
    LET ks == KeysOf(keys)
        kept == SelectSeq(ks, LAMBDA k : Occurrences(keys, k) >= least)
    IN  Project(kept, LAMBDA k : [key |-> k,
                                  frequency |-> Occurrences(keys, k),
                                  priority |-> Prio(Occurrences(keys, k))])

\* {key: [accuracy, ...]} lists with avg_accuracy
ScoredList(items, least, Prio(_)) ==
    LET keys == Project(items, LAMBDA x : x.key)
        ks == KeysOf(keys)
        kept == SelectSeq(ks, LAMBDA k : Occurrences(keys, k) >= least)
        accs(k) == Project(SelectSeq(items, LAMBDA x : x.key = k), LAMBDA x : x.accuracy)
    IN  Project(kept, LAMBDA k : [key |-> k,
                                  frequency |-> Occurrences(keys, k),
                                  avg_accuracy |-> Mean(accs(k)),
                                  priority |-> Prio(Occurrences(keys, k))])

\* {key: [error, ...]} lists with up to three non-empty examples
ExampleList(items, least, Prio(_)) ==
    LET keys == Project(items, LAMBDA x : x.key)
        ks == KeysOf(keys)
        kept == SelectSeq(ks, LAMBDA k : Occurrences(keys, k) >= least)
        exs(k) == Project(SelectSeq(Take(SelectSeq(items, LAMBDA x : x.key = k), 3),
                                    LAMBDA x : x.example # ""),
                          LAMBDA x : x.example)
    IN  Project(kept, LAMBDA k : [key |-> k,
                                  frequency |-> Occurrences(keys, k),
                                  examples |-> exs(k),
                                  priority |-> Prio(Occurrences(keys, k))])

\* count of insights of the batch whose flag holds
CountWhere(batch, P(_)) == Cardinality({i \in DOMAIN batch : P(batch[i])})

(***************************************************************************)
(* Frequency aggregation of each module.  `batch` is the list of the data  *)
(* of the uncompressed Insights in the order of the query (created_at      *)
(* descending).  Dict items of the JSON lists are records whose `key`      *)
(* field is the module's key ('word', 'phoneme', 'type', 'issue', 'area'); *)
(* string lists (question types, fluency issues, topics) are sequences of  *)
(* strings.  Every pattern entry carries its key as `key`.                 *)
(***************************************************************************)
Flatten(batch, Field(_)) == Concat(Project(batch, Field))

ItemKeys(items) == Project(items, LAMBDA x : x.key)

\* half of the sessions counted as "more than half"
AtLeastHalf(count, n) == 2 * count >= n

\* count > len(insights) / 2  # More than half sessions
Majority(count, n) == 2 * count > n

\* compress_reading_memory, lines 272-325
ReadingPayload(batch, now) ==
    LET all_vocabulary_mistakes == Flatten(batch, LAMBDA d : d.vocabulary_mistakes)
        all_question_types == Flatten(batch, LAMBDA d : d.question_types_struggled)
        speed_issues_count == CountWhere(batch, LAMBDA d : d.reading_speed_issue)
        low_completion_count == CountWhere(batch, LAMBDA d : d.completion_rate < 80)
        chronic_vocabulary_gaps == CountedList(ItemKeys(all_vocabulary_mistakes), 2, Priority)
        comprehension_weaknesses == CountedList(all_question_types, 1, Priority)
    IN  [module |-> "reading",
         vocabulary_gaps |-> Take(chronic_vocabulary_gaps, TopN),
         comprehension_weaknesses |-> comprehension_weaknesses,
         reading_speed_issue |-> Majority(speed_issues_count, Len(batch)),
         completion_issue |-> Majority(low_completion_count, Len(batch)),
         total_sessions_analyzed |-> Len(batch),
         last_compressed_at |-> now,
         summary |-> NoSummary]

\* compress_listening_memory, lines 499-527
ListeningPayload(batch, now) ==
    LET all_question_types == Flatten(batch, LAMBDA d : d.question_types_struggled)
        speed_issues_count == CountWhere(batch, LAMBDA d : d.audio_speed_issue)
        comprehension_weaknesses == CountedList(all_question_types, 1, Priority)
    IN  [module |-> "listening",
         comprehension_weaknesses |-> comprehension_weaknesses,
         audio_speed_issue |-> Majority(speed_issues_count, Len(batch)),
         total_sessions_analyzed |-> Len(batch),
         last_compressed_at |-> now,
         summary |-> NoSummary]

LowerKey(x) == [x EXCEPT !.key = Lower(x.key)]

\* fluency_patterns of the speaking payload have no priority field
WithoutPriority(e) == [key |-> e.key, frequency |-> e.frequency]

\* compress_speaking_memory, lines 721-791
SpeakingPayload(batch, now) ==
    LET all_mispronounced == Flatten(batch, LAMBDA d : d.mispronounced_words)
        all_phoneme_errors == Flatten(batch, LAMBDA d : d.phoneme_errors)
        all_fluency_issues == Flatten(batch, LAMBDA d : d.fluency_problems)
        chronic_words == ScoredList(Project(all_mispronounced, LowerKey), 2, Priority)
        problem_phonemes == ScoredList(all_phoneme_errors, 2, Priority)
        fluency_patterns == Project(CountedList(all_fluency_issues, 2, Priority), WithoutPriority)
    IN  [module |-> "speaking",
         chronic_pronunciation_errors |-> Take(chronic_words, TopN),
         problem_phonemes |-> Take(problem_phonemes, TopN),
         fluency_patterns |-> fluency_patterns,
         total_sessions_analyzed |-> Len(batch),
         last_compressed_at |-> now,
         summary |-> NoSummary]

\* round(avg_score, 1) of the truthy overall scores, kept as a fraction
AverageScore(batch) ==
    LET scores == SelectSeq(Project(batch, LAMBDA d : d.overall_score), LAMBDA x : x # 0)
    IN  IF scores = <<>> THEN [num |-> 0, den |-> 1] ELSE Mean(scores)

\* compress_writing_memory, lines 1033-1130
WritingPayload(batch, now) ==
    LET all_grammar_errors == Flatten(batch, LAMBDA d : d.grammar_errors)
        all_style_issues == Flatten(batch, LAMBDA d : d.style_issues)
        all_vocab_issues == Flatten(batch, LAMBDA d : d.vocabulary_issues)
        all_content_weaknesses == Flatten(batch, LAMBDA d : d.content_weaknesses)
        chronic_grammar_errors == ExampleList(all_grammar_errors, 2, Priority)
        recurring_style_issues == CountedList(ItemKeys(all_style_issues), 2, Priority)
        vocabulary_weaknesses == CountedList(ItemKeys(all_vocab_issues), 2, Priority)
        content_patterns == CountedList(ItemKeys(all_content_weaknesses), 2, Priority)
    IN  [module |-> "writing",
         chronic_grammar_errors |-> Take(SortedDesc(chronic_grammar_errors), TopN),
         recurring_style_issues |-> Take(SortedDesc(recurring_style_issues), TopN),
         vocabulary_weaknesses |-> Take(vocabulary_weaknesses, TopN),
         content_patterns |-> Take(content_patterns, TopN),
         average_score |-> AverageScore(batch),
         total_sessions_analyzed |-> Len(batch),
         last_compressed_at |-> now,
         summary |-> NoSummary]

\* compress_conversation_memory, lines 1361-1511
ConversationPayload(batch, now) ==
    LET all_grammar_errors == Flatten(batch, LAMBDA d : d.grammar_errors)
        all_vocab_gaps == Flatten(batch, LAMBDA d : d.vocabulary_gaps)
        all_fluency_issues == Flatten(batch, LAMBDA d : d.fluency_issues)
        all_topic_struggles == Flatten(batch, LAMBDA d : d.topic_struggles)
        all_mispronounced_words == Flatten(batch, LAMBDA d : d.mispronounced_words)
        all_phoneme_errors == Flatten(batch, LAMBDA d : d.phoneme_errors)
        chronic_grammar_errors == ExampleList(all_grammar_errors, 2, Priority)
        chronic_vocab_gaps == CountedList(ItemKeys(all_vocab_gaps), 1, PriorityConversation)
        fluency_patterns == CountedList(all_fluency_issues, 2, Priority)
        topic_patterns == CountedList(all_topic_struggles, 1, PriorityConversation)
        chronic_mispronunciations ==
            ScoredList(Project(all_mispronounced_words, LowerKey), 1, PriorityConversation)
        problem_phonemes == ScoredList(all_phoneme_errors, 1, PriorityConversation)
    IN  [module |-> "conversation",
         chronic_grammar_errors |-> Take(SortedDesc(chronic_grammar_errors), TopN),
         vocabulary_gaps |-> Take(SortedDesc(chronic_vocab_gaps), TopN),
         fluency_patterns |-> Take(fluency_patterns, TopN),
         topic_struggles |-> Take(topic_patterns, TopN),
         chronic_mispronunciations |-> Take(SortedDesc(chronic_mispronunciations), TopN),
         problem_phonemes |-> Take(SortedDesc(problem_phonemes), TopN),
         avg_words_per_session |->
             [num |-> SumSeq(Project(batch, LAMBDA d : d.total_words)), den |-> Len(batch)],
         total_sessions_analyzed |-> Len(batch),
         last_compressed_at |-> now,
         summary |-> NoSummary]

\* the deterministic payload of a compression run of module m
BuildPayload(m, batch, now) ==
    CASE m = "reading" -> ReadingPayload(batch, now)
      [] m = "listening" -> ListeningPayload(batch, now)
      [] m = "speaking" -> SpeakingPayload(batch, now)
      [] m = "writing" -> WritingPayload(batch, now)
      [] m = "conversation" -> ConversationPayload(batch, now)

\* the ranked pattern lists of a payload of module m
PatternLists(m, payload) ==
    CASE m = "reading" -> <<payload.vocabulary_gaps, payload.comprehension_weaknesses>>
      [] m = "listening" -> <<payload.comprehension_weaknesses>>
      [] m = "speaking" -> <<payload.chronic_pronunciation_errors, payload.problem_phonemes,
                             payload.fluency_patterns>>
      [] m = "writing" -> <<payload.chronic_grammar_errors, payload.recurring_style_issues,
                            payload.vocabulary_weaknesses, payload.content_patterns>>
      [] m = "conversation" -> <<payload.chronic_grammar_errors, payload.vocabulary_gaps,
                                 payload.fluency_patterns, payload.topic_struggles,
                                 payload.chronic_mispronunciations, payload.problem_phonemes>>

(***************************************************************************)
(* Session providers.  The rows of the session tables (and, for the        *)
(* conversation module, the in-memory session contexts) are fixed sample   *)
(* data, one row per id of SessionIds and module; 0 stands for a NULL      *)
(* column and <<>> for a missing JSON list.                                *)
(***************************************************************************)
\* ReadingSession with its VocabularyInteraction and ReadingResponse rows
ReadingSessionRow(sid) ==
    CASE sid = 1 -> [vocab |-> <<[key |-> "ephemeral"]>>,
                     responses |-> <<FALSE>>,
                     words_per_minute |-> 80,
                     reading_completion_percentage |-> 70,
                     vocabulary_clicks |-> 1]
      [] sid = 2 -> [vocab |-> <<[key |-> "ephemeral"], [key |-> "lucid"]>>,
                     responses |-> <<TRUE, FALSE>>,
                     words_per_minute |-> 150,
                     reading_completion_percentage |-> 100,
                     vocabulary_clicks |-> 12]
      [] sid = 3 -> [vocab |-> <<>>,
                     responses |-> <<>>,
                     words_per_minute |-> 0,
                     reading_completion_percentage |-> 0,
                     vocabulary_clicks |-> 0]
      [] sid = NullSession ->
                    [vocab |-> <<>>,
                     responses |-> <<>>,
                     words_per_minute |-> 0,
                     reading_completion_percentage |-> 0,
                     vocabulary_clicks |-> Null]
      [] sid = OpenSession ->
                    [vocab |-> <<[key |-> "lucid"]>>,
                     responses |-> <<FALSE>>,
                     words_per_minute |-> 90,
                     reading_completion_percentage |-> 40,
                     vocabulary_clicks |-> 1]

\* LearningSession of a listening activity: session_data['detailed_results'],
\* each question text given by the keywords it contains
ListeningSessionRow(sid) ==
    CASE sid = 1 -> [detailed_results |-> <<[is_correct |-> FALSE, question |-> {"main idea"}]>>,
                     performance_score |-> 40]
      [] sid = 2 -> [detailed_results |-> <<[is_correct |-> FALSE, question |-> {"detail", "infer"}],
                                            [is_correct |-> FALSE, question |-> {"suggest"}],
                                            [is_correct |-> TRUE, question |-> {"main idea"}]>>,
                     performance_score |-> 90]
      [] sid = 3 -> [detailed_results |-> <<>>,
                     performance_score |-> 0]
      [] sid = NullSession ->
                    [detailed_results |-> <<[is_correct |-> FALSE, question |-> NullText]>>,
                     performance_score |-> 0]
      [] sid = OpenSession ->
                    [detailed_results |-> <<>>,
                     performance_score |-> 0]

\* SpeakingSession: word_level_analysis['words'] and the fluency columns
SpeakingSessionRow(sid) ==
    CASE sid = 1 -> [words |-> <<[word |-> "comfortable", accuracy_score |-> 60,
                                  phonemes |-> <<[phoneme |-> "th", accuracy_score |-> 50]>>]>>,
                     fluency_score |-> 65, pause_count |-> 6, filler_word_count |-> 0]
      [] sid = 2 -> [words |-> <<[word |-> "Comfortable", accuracy_score |-> 65,
                                  phonemes |-> <<[phoneme |-> "th", accuracy_score |-> 55],
                                                 [phoneme |-> "r", accuracy_score |-> 40]>>],
                                 [word |-> "world", accuracy_score |-> 80,
                                  phonemes |-> <<>>],
                                 [word |-> "comfortable", accuracy_score |-> 68,
                                  phonemes |-> <<>>]>>,
                     fluency_score |-> 90, pause_count |-> 0, filler_word_count |-> 4]
      [] sid \in {3, NullSession} ->
                    [words |-> <<>>,
                     fluency_score |-> 0, pause_count |-> 0, filler_word_count |-> 0]
      [] sid = OpenSession ->
                    [words |-> <<[word |-> "world", accuracy_score |-> 50, phonemes |-> <<>>]>>,
                     fluency_score |-> 0, pause_count |-> 0, filler_word_count |-> 0]

\* the analysis_data the writing route hands to the extraction
WritingAnalysis(sid) ==
    CASE sid = 1 -> [common_errors |-> <<"subject_verb">>,
                     specific_corrections |-> <<[type |-> "subject_verb", original |-> "he go"]>>,
                     style_suggestions |-> <<"wordiness">>,
                     complexity_level |-> "basic",
                     vocabulary_suggestions |-> <<"use synonyms">>,
                     content_feedback |-> <<[area |-> "coherence", rating |-> "weak"]>>,
                     score |-> 60]
      [] sid = 2 -> [common_errors |-> <<"tense">>,
                     specific_corrections |-> <<[type |-> "subject_verb", original |-> ""]>>,
                     style_suggestions |-> <<"wordiness", "passive_voice">>,
                     complexity_level |-> "intermediate",
                     vocabulary_suggestions |-> <<>>,
                     content_feedback |-> <<[area |-> "coherence", rating |-> "good"],
                                            [area |-> "support", rating |-> "poor"]>>,
                     score |-> 80]
      [] sid \in {3, NullSession, OpenSession} ->
                    [common_errors |-> <<>>,
                     specific_corrections |-> <<>>,
                     style_suggestions |-> <<>>,
                     complexity_level |-> "intermediate",
                     vocabulary_suggestions |-> <<>>,
                     content_feedback |-> <<>>,
                     score |-> 0]

\* the session_data end_session builds from the conversation context, with
\* the outcome of the analysis request made for it
ConversationContext(sid) ==
    CASE sid = 1 -> [student_messages |-> 3,
                     analysis |-> [ok |-> TRUE,
                                   grammar_errors |-> <<[key |-> "article", example |-> "a apple"]>>,
                                   vocabulary_gaps |-> <<[key |-> "nevertheless"]>>,
                                   fluency_issues |-> <<"hesitation">>,
                                   topic_struggles |-> <<"politics">>],
                     mispronounced_words |-> <<[key |-> "World", accuracy |-> 55]>>,
                     phoneme_errors |-> <<[key |-> "r", accuracy |-> 40]>>,
                     total_words |-> 24, average_words_per_message |-> 8]
      [] sid = 2 -> [student_messages |-> 2,
                     analysis |-> [ok |-> TRUE,
                                   grammar_errors |-> <<>>, vocabulary_gaps |-> <<>>,
                                   fluency_issues |-> <<>>, topic_struggles |-> <<>>],
                     mispronounced_words |-> <<>>,
                     phoneme_errors |-> <<>>,
                     total_words |-> 6, average_words_per_message |-> 3]
      [] sid = 3 -> [student_messages |-> 4,
                     analysis |-> [ok |-> FALSE,
                                   grammar_errors |-> <<>>, vocabulary_gaps |-> <<>>,
                                   fluency_issues |-> <<>>, topic_struggles |-> <<>>],
                     mispronounced_words |-> <<[key |-> "world", accuracy |-> 62]>>,
                     phoneme_errors |-> <<>>,
                     total_words |-> 40, average_words_per_message |-> 10]

\* Model.query.get(session_id): the conversation extraction looks no session up
SessionExists(m, sid) == m = "conversation" \/ sid \in SessionIds \cup EdgeSessionIds

\* the session is marked complete (is_completed, completed_at)
IsCompleted(m, sid) == sid # OpenSession

\* the extraction code raises TypeError on the row: engagement level of a
\* reading session with a NULL click count (None < 3, line 205), text of a
\* listening question that is None (None[:100], lines 413-423)
ExtractionRaises(m, sid) ==
    CASE m = "reading" -> ReadingSessionRow(sid).vocabulary_clicks = Null
      [] m = "listening" ->
            \E i \in DOMAIN ListeningSessionRow(sid).detailed_results :
                ListeningSessionRow(sid).detailed_results[i].question = NullText
      [] OTHER -> FALSE

(***************************************************************************)
(* Insight extraction: the data of the Insight built from a session.       *)
(* list(set(x)) has no defined order; `order` is the order the build       *)
(* produced, any enumeration of the set.                                   *)
(***************************************************************************)
Enumerations(S) ==
    {q \in [1..Cardinality(S) -> S] : \A i, j \in 1..Cardinality(S) : i # j => q[i] # q[j]}

\* extract_reading_session_insights, lines 95-231
ReadingStruggled(row) ==
    {"inference" : i \in {j \in DOMAIN row.responses : ~row.responses[j]}}

ReadingInsightData(row, order) ==
    [vocabulary_mistakes |-> row.vocab,
     question_types_struggled |-> order,
     reading_speed_issue |-> row.words_per_minute # 0 /\ row.words_per_minute < 100,
     completion_rate |-> row.reading_completion_percentage]

\* the if/elif chain of extract_listening_session_insights, lines 423-431
QuestionType(question) ==
    IF "main idea" \in question \/ "primarily about" \in question THEN "main_idea"
    ELSE IF "detail" \in question \/ "mentioned" \in question THEN "detail"
    ELSE IF "infer" \in question \/ "imply" \in question \/ "suggest" \in question
         THEN "inference"
    ELSE "general"

ListeningStruggled(row) ==
    {QuestionType(row.detailed_results[i].question) :
        i \in {j \in DOMAIN row.detailed_results : ~row.detailed_results[j].is_correct}}

\* extract_listening_session_insights, lines 400-453
ListeningInsightData(row, order) ==
    [question_types_struggled |-> order,
     audio_speed_issue |-> row.performance_score < 50]

\* extract_speaking_session_insights, lines 599-675
SpeakingInsightData(row) ==
    LET low == SelectSeq(row.words, LAMBDA w : w.accuracy_score < 70)
        mispronounced_words == Project(low, LAMBDA w : [key |-> w.word, accuracy |-> w.accuracy_score])
        phonemes == Concat(Project(row.words, LAMBDA w : w.phonemes))
        phoneme_errors == Project(SelectSeq(phonemes, LAMBDA ph : ph.accuracy_score < 60),
                                  LAMBDA ph : [key |-> ph.phoneme, accuracy |-> ph.accuracy_score])
        fluency_problems ==
            (IF row.fluency_score # 0 /\ row.fluency_score < 70 THEN <<"low_fluency">> ELSE <<>>)
            \o (IF row.pause_count > 5 THEN <<"excessive_pauses">> ELSE <<>>)
            \o (IF row.filler_word_count > 3 THEN <<"filler_words">> ELSE <<>>)
    IN  [mispronounced_words |-> Take(mispronounced_words, 20),
         phoneme_errors |-> Take(phoneme_errors, 20),
         fluency_problems |-> fluency_problems]

\* extract_writing_session_insights, lines 874-986
WritingInsightData(a) ==
    LET grammar_errors ==
            Project(a.common_errors, LAMBDA t : [key |-> t, example |-> ""])
            \o Project(Take(a.specific_corrections, 10),
                       LAMBDA c : [key |-> c.type, example |-> c.original])
        style_issues == Project(Take(a.style_suggestions, 10), LAMBDA i : [key |-> i])
        vocabulary_issues ==
            (IF a.complexity_level = "basic" THEN <<[key |-> "limited_vocabulary"]>> ELSE <<>>)
            \o Project(a.vocabulary_suggestions, LAMBDA x : [key |-> "vocabulary_suggestion"])
        weak_content_areas ==
            Project(SelectSeq(a.content_feedback, LAMBDA f : f.rating \in {"weak", "poor"}),
                    LAMBDA f : [key |-> f.area])
    IN  [grammar_errors |-> Take(grammar_errors, 20),
         style_issues |-> Take(style_issues, 15),
         vocabulary_issues |-> Take(vocabulary_issues, 15),
         content_weaknesses |-> weak_content_areas,
         overall_score |-> a.score]

\* extract_conversation_session_insights, lines 1207-1314
ConversationInsightData(c) ==
    LET analysed == c.student_messages >= 3 /\ c.analysis.ok
        failed == c.student_messages >= 3 /\ ~c.analysis.ok
        fluency_issues ==
            (IF analysed THEN c.analysis.fluency_issues ELSE <<>>)
            \o (IF failed /\ c.total_words < 50 THEN <<"short_responses">> ELSE <<>>)
            \o (IF c.average_words_per_message < 5 THEN <<"very_short_responses">> ELSE <<>>)
    IN  [grammar_errors |-> IF analysed THEN Take(c.analysis.grammar_errors, 15) ELSE <<>>,
         vocabulary_gaps |-> IF analysed THEN Take(c.analysis.vocabulary_gaps, 15) ELSE <<>>,
         fluency_issues |-> fluency_issues,
         topic_struggles |-> IF analysed THEN c.analysis.topic_struggles ELSE <<>>,
         mispronounced_words |-> c.mispronounced_words,
         phoneme_errors |-> c.phoneme_errors,
         total_words |-> c.total_words]

\* the set a list(set(...)) of the extraction is taken over ({} when none)
StruggledSet(m, sid) ==
    CASE m = "reading" -> ReadingStruggled(ReadingSessionRow(sid))
      [] m = "listening" -> ListeningStruggled(ListeningSessionRow(sid))
      [] OTHER -> {}

InsightData(m, sid, order) ==
    CASE m = "reading" -> ReadingInsightData(ReadingSessionRow(sid), order)
      [] m = "listening" -> ListeningInsightData(ListeningSessionRow(sid), order)
      [] m = "speaking" -> SpeakingInsightData(SpeakingSessionRow(sid))
      [] m = "writing" -> WritingInsightData(WritingAnalysis(sid))
      [] m = "conversation" -> ConversationInsightData(ConversationContext(sid))

(***************************************************************************)
(* The Summarizer: OpenAIClient.generate_content as the compression code   *)
(* calls it.  `api` is what the provider did with the request.             *)
(***************************************************************************)
ApiOutcomes ==
    {"text", "json_string", "json_content_string",       \* a usable answer
     "no_api_key", "api_exception", "null_content",      \* the client reports an error
     "json_no_content", "json_list",                     \* an answer of another shape
     "json_content_number",                              \* 'content' is not a string
     "client_init_raises"}                               \* OpenAIClient() itself raises

SummarizerFailures ==
    ApiOutcomes \ {"text", "json_string", "json_content_string"}

\* str.strip() on the texts of the model
Strip(t) == IF t = " Focus on inference. " THEN "Focus on inference." ELSE t

\* OpenAIClient.generate_content, lines 11-40: the value it returns
GenerateContent(api) ==
    CASE api \in {"no_api_key", "api_exception", "null_content"} ->
            [type |-> "dict", keys |-> {"error"}, content_is_str |-> FALSE, text |-> ""]
      [] api = "text" ->
            [type |-> "dict", keys |-> {"content"}, content_is_str |-> TRUE,
             text |-> " Focus on inference. "]
      [] api = "json_content_string" ->
            [type |-> "dict", keys |-> {"content"}, content_is_str |-> TRUE,
             text |-> "Focus on inference."]
      [] api = "json_content_number" ->
            [type |-> "dict", keys |-> {"content"}, content_is_str |-> FALSE, text |-> ""]
      [] api = "json_no_content" ->
            [type |-> "dict", keys |-> {"summary"}, content_is_str |-> FALSE, text |-> ""]
      [] api = "json_string" ->
            [type |-> "str", keys |-> {}, content_is_str |-> FALSE,
             text |-> " Focus on inference. "]
      [] api = "json_list" ->
            [type |-> "list", keys |-> {}, content_is_str |-> FALSE, text |-> ""]
      [] api = "no_response" ->           \* the timeout error, caught at line 38
            [type |-> "dict", keys |-> {"error"}, content_is_str |-> FALSE, text |-> ""]

\* the try/except around the Summarizer call (lines 328-364 and the same
\* block of the other four modules): the summary stored for n insights
SummaryFor(api, n) ==
    IF api = "client_init_raises" THEN AnalyzedNSessions(n)
    ELSE LET ai_response == GenerateContent(api) IN
         IF ai_response.type = "dict" /\ "content" \in ai_response.keys
         THEN IF ai_response.content_is_str
              THEN AiText(Strip(ai_response.text))
              ELSE AnalyzedNSessions(n)      \* .strip() raises, except branch
         ELSE IF ai_response.type = "str"
              THEN AiText(Strip(ai_response.text))
              ELSE AnalysisComplete

\* number of generate_content calls of one compression run
SummarizerCalls(use_ai, api) ==
    IF use_ai /\ api # "client_init_raises" THEN 1 ELSE 0

\* OpenAI(api_key=...) and chat.completions.create(...) are given neither a
\* timeout nor max_retries (openai_client.py:9, 23-28): the client library
\* waits for its default timeout and sends the request again, by default
\* twice, before it raises
ClientMaxRetries == 2

\* the provider does not answer the request
NoResponse == "no_response"

\* the request reaches the provider (no client without a key, line 13)
SendsRequest(api) == api \notin {"no_api_key", "client_init_raises"}

(***************************************************************************)
(* The database: db.boards is the student_memory_board table (student_id   *)
(* is unique, so at most one row per student), db.insights[m] the          *)
(* <m>_memory_insight table in insertion order (the row id is the index),  *)
(* db.clock the latest time written to a row; datetime.utcnow() reads a    *)
(* later time, db.clock + 1.                                               *)
(***************************************************************************)
NoBoard == [absent |-> TRUE]

\* StudentMemoryBoard(...) with the column defaults, lines 44-52
NewBoard ==
    [absent |-> FALSE,
     memory |-> [m \in Modules |-> EmptyPayload],
     last_compressed_at |-> [m \in Modules |-> 0],
     sessions_since_compression |-> [m \in Modules |-> 0]]

EmptyDb ==
    [boards |-> [s \in Students |-> NoBoard],
     insights |-> [m \in Modules |-> <<>>],
     clock |-> 0]

HasBoard(db, s) == ~db.boards[s].absent

\* the query without the is_compressed filter
AllIds(db, s, m) ==
    LET rows == db.insights[m]
        n == Len(rows)
        newestFirst == [i \in 1..n |-> n + 1 - i]
    IN  SelectSeq(newestFirst, LAMBDA i : rows[i].student_id = s)

\* Insight.query.filter_by(student_id=s, is_compressed=False)
\*        .order_by(created_at.desc()): the ids of the rows, newest first
\* the uncompressed rows of the table, whoever the student
UncompressedIdsOfAll(db, s, m) ==
    LET rows == db.insights[m]
        n == Len(rows)
        newestFirst == [i \in 1..n |-> n + 1 - i]
    IN  SelectSeq(newestFirst, LAMBDA i : ~rows[i].is_compressed)

UncompressedIds(db, s, m) ==
    LET rows == db.insights[m]
        n == Len(rows)
        newestFirst == [i \in 1..n |-> n + 1 - i]
    IN  SelectSeq(newestFirst,
                  LAMBDA i : rows[i].student_id = s /\ ~rows[i].is_compressed)

\* the comparison written with > instead of >=
ThresholdExceeded(db, s, m) == Len(UncompressedIds(db, s, m)) > COMPRESSION_THRESHOLD

\* ... .count() >= COMPRESSION_THRESHOLD, lines 72-78
ThresholdReached(db, s, m) == Len(UncompressedIds(db, s, m)) >= COMPRESSION_THRESHOLD

\* the Insight row an extraction adds, lines 211-231 (column defaults:
\* is_compressed False, compressed_at NULL, created_at now); the
\* conversation extraction sets no session reference
NewInsight(s, m, sid, order, now) ==
    [student_id |-> s,
     session_id |-> IF m = "conversation" THEN NoSession ELSE sid,
     data |-> InsightData(m, sid, order),
     is_compressed |-> FALSE,
     compressed_at |-> 0,
     created_at |-> now]

(***************************************************************************)
(* A request in progress.  `pc` is the next database interaction of the    *)
(* code; the local fields are the values the request holds in memory       *)
(* (the ORM objects it loaded).  `handler` tells a session-completion      *)
(* handler (extract, then should_compress, then compress when true, any    *)
(* exception caught and logged) from a direct call of one operation.       *)
(***************************************************************************)
NoReturn == [kind |-> "none", b |-> FALSE, payload |-> EmptyPayload, id |-> 0]

ReturnBool(b) == [kind |-> "bool", b |-> b, payload |-> EmptyPayload, id |-> 0]

ReturnPayload(pl) == [kind |-> "payload", b |-> FALSE, payload |-> pl, id |-> 0]

ReturnInsight(id) == [kind |-> "insight", b |-> FALSE, payload |-> EmptyPayload, id |-> id]

Idle ==
    [name |-> "none", pc |-> "idle", handler |-> FALSE,
     s |-> 0, m |-> "none", sid |-> 0, order |-> <<>>,
     use_ai |-> FALSE, api |-> "not_called",
     batch |-> <<>>, payload |-> EmptyPayload, counter_read |-> 0,
     next |-> "done", calls |-> 0, attempts |-> 0, ret |-> NoReturn, err |-> "none"]

StartExtract(s, m, sid, order) ==
    [Idle EXCEPT !.name = "extract", !.pc = "e_insert",
                 !.s = s, !.m = m, !.sid = sid, !.order = order]

StartShouldCompress(s, m) ==
    [Idle EXCEPT !.name = "should_compress", !.pc = "s_board", !.s = s, !.m = m]

StartCompress(s, m, use_ai) ==
    [Idle EXCEPT !.name = "compress", !.pc = "c_read",
                 !.s = s, !.m = m, !.use_ai = use_ai]

StartGetMemory(s, m) ==
    [Idle EXCEPT !.name = "get_memory", !.pc = "g_board", !.s = s, !.m = m]

\* get_adaptive_question_focus: reads through get_reading_memory
StartGetHints(s) ==
    [Idle EXCEPT !.name = "hints", !.pc = "g_board", !.s = s, !.m = "reading"]

\* the memory block of a completion handler: compress is called with use_ai=True
StartCompleteSession(s, m, sid, order) ==
    [Idle EXCEPT !.name = "complete_session", !.pc = "e_insert", !.handler = TRUE,
                 !.s = s, !.m = m, !.sid = sid, !.order = order,
                 !.use_ai = TRUE]

\* an exception leaves the operation; a handler catches and logs it
Raise(db, p, e) == [db |-> db, p |-> [p EXCEPT !.pc = "done", !.err = e]]

\* get_or_create_memory_board, line 41: the lookup.  `after` is where the
\* caller continues once it holds the board.
LookupBoard(db, p, after) ==
    IF HasBoard(db, p.s)
    THEN [db |-> db,
          p |-> [p EXCEPT !.pc = after,
                          !.counter_read = db.boards[p.s].sessions_since_compression[p.m]]]
    ELSE [db |-> db, p |-> [p EXCEPT !.pc = "b_insert", !.next = after]]

\* the insert on a table without the unique constraint: a second row, which
\* the next lookup may return in place of the first
InsertBoardAgain(db, p) ==
    [db |-> [db EXCEPT !.boards[p.s] = NewBoard],
     p |-> [p EXCEPT !.pc = p.next, !.counter_read = 0]]

\* get_or_create_memory_board, lines 43-55: the insert and its commit;
\* student_id is unique, so the insert fails when a row exists by now
InsertBoard(db, p) ==
    IF HasBoard(db, p.s)
    THEN Raise(db, p, "IntegrityError")
    ELSE [db |-> [db EXCEPT !.boards[p.s] = NewBoard],
          p |-> [p EXCEPT !.pc = p.next, !.counter_read = 0]]

\* a missing session answered with no Insight instead of an error
ExtractInsertOrNone(db, p) ==
    IF ~SessionExists(p.m, p.sid)
    THEN [db |-> db, p |-> [p EXCEPT !.pc = "done"]]
    ELSE IF ExtractionRaises(p.m, p.sid)
    THEN Raise(db, p, "TypeError")
    ELSE LET now == db.clock + 1
             row == NewInsight(p.s, p.m, p.sid, p.order, now)
         IN  [db |-> [db EXCEPT !.insights[p.m] = Append(@, row), !.clock = now],
              p |-> [p EXCEPT !.pc = "e_board",
                              !.ret = ReturnInsight(Len(db.insights[p.m]) + 1)]]

\* extract_<module>_session_insights up to the first commit
\* (lines 91-93 and 211-234)
ExtractInsert(db, p) ==
    IF ~SessionExists(p.m, p.sid)
    THEN Raise(db, p, "ValueError")
    ELSE IF ExtractionRaises(p.m, p.sid)
    THEN Raise(db, p, "TypeError")
    ELSE LET now == db.clock + 1
             row == NewInsight(p.s, p.m, p.sid, p.order, now)
         IN  [db |-> [db EXCEPT !.insights[p.m] = Append(@, row), !.clock = now],
              p |-> [p EXCEPT !.pc = "e_board",
                              !.ret = ReturnInsight(Len(db.insights[p.m]) + 1)]]

\* the counter assigned instead of incremented
ExtractAssign(db, p) ==
    [db |-> [db EXCEPT !.boards[p.s].sessions_since_compression[p.m] = 1],
     p |-> [p EXCEPT !.pc = IF p.handler THEN "s_board" ELSE "done"]]

\* lines 238-241: counter += 1 on the loaded board, commit
ExtractIncrement(db, p) ==
    [db |-> [db EXCEPT !.boards[p.s].sessions_since_compression[p.m] = p.counter_read + 1],
     p |-> [p EXCEPT !.pc = IF p.handler THEN "s_board" ELSE "done"]]

\* the check made and its answer not acted upon
ShouldCompressUnheeded(db, p) ==
    [db |-> db,
     p |-> [p EXCEPT !.pc = "done",
                     !.ret = ReturnBool(ThresholdReached(db, p.s, p.m))]]

\* should_compress_<module>_memory, lines 71-78
ShouldCompressCount(db, p) ==
    LET b == ThresholdReached(db, p.s, p.m)
    IN  [db |-> db,
         p |-> [p EXCEPT !.pc = IF p.handler /\ b THEN "c_read" ELSE "done",
                         !.ret = ReturnBool(b)]]

\* the board fetched before the empty-batch check
CompressReadBoardFirst(db, p) ==
    LET ids == UncompressedIds(db, p.s, p.m)
        now == db.clock + 1
        batch == Project(ids, LAMBDA i : db.insights[p.m][i].data)
    IN  IF ids = <<>>
        THEN [db |-> [db EXCEPT !.boards[p.s] = IF @.absent THEN NewBoard ELSE @],
              p |-> [p EXCEPT !.pc = "done", !.ret = ReturnPayload(EmptyPayload)]]
        ELSE [db |-> db,
              p |-> [p EXCEPT !.pc = IF p.use_ai THEN "c_summarize" ELSE "c_board",
                              !.batch = ids,
                              !.payload = BuildPayload(p.m, batch, now)]]

\* compress_<module>_memory, lines 262-325: the query and the aggregation
CompressRead(db, p) ==
    LET ids == UncompressedIds(db, p.s, p.m)
        now == db.clock + 1
        batch == Project(ids, LAMBDA i : db.insights[p.m][i].data)
    IN  IF ids = <<>>
        THEN [db |-> db, p |-> [p EXCEPT !.pc = "done", !.ret = ReturnPayload(EmptyPayload)]]
        ELSE [db |-> db,
              p |-> [p EXCEPT !.pc = IF p.use_ai THEN "c_summarize" ELSE "c_board",
                              !.batch = ids,
                              !.payload = BuildPayload(p.m, batch, now)]]

\* a failed call that also costs the payload its session count
CompressSummarizeDropsCount(db, p, api) ==
    [db |-> db,
     p |-> [p EXCEPT !.pc = "c_board",
                     !.api = api,
                     !.calls = SummarizerCalls(p.use_ai, api),
                     !.attempts = IF SendsRequest(api) THEN @ + 1 ELSE @,
                     !.payload = [p.payload EXCEPT
                                     !.summary = SummaryFor(api, Len(p.batch)),
                                     !.total_sessions_analyzed =
                                         IF api = "text" THEN @ ELSE 0]]]

\* lines 327-364: the Summarizer call and its fallbacks; `api` is what the
\* provider does with this request
CompressSummarize(db, p, api) ==
    IF api = NoResponse /\ p.attempts < ClientMaxRetries
    THEN [db |-> db, p |-> [p EXCEPT !.attempts = @ + 1]]     \* timed out, sent again
    ELSE [db |-> db,
          p |-> [p EXCEPT !.pc = "c_board",
                          !.api = api,
                          !.calls = SummarizerCalls(p.use_ai, api),
                          !.attempts = IF SendsRequest(api) THEN @ + 1 ELSE @,
                          !.payload = [p.payload EXCEPT
                                          !.summary = SummaryFor(api, Len(p.batch))]]]

\* the flag of every row written from its membership in the batch
CompressCommitRewritesFlags(db, p) ==
    LET now == db.clock + 1
        board == db.boards[p.s]
        written == [board EXCEPT
                       !.memory[p.m] = p.payload,
                       !.last_compressed_at[p.m] = now,
                       !.sessions_since_compression[p.m] =
                           IF p.counter_read = 0 THEN @ ELSE 0]
        flagged == [i \in DOMAIN db.insights[p.m] |->
                       [db.insights[p.m][i] EXCEPT
                           !.is_compressed = (i \in Range(p.batch)),
                           !.compressed_at = IF i \in Range(p.batch) THEN now ELSE @]]
    IN  [db |-> [db EXCEPT !.boards[p.s] = written,
                           !.insights[p.m] = flagged,
                           !.clock = now],
         p |-> [p EXCEPT !.pc = "done", !.ret = ReturnPayload(p.payload)]]

\* slot, timestamp and counter committed without the flags of the batch
CompressCommitBoardOnly(db, p) ==
    LET now == db.clock + 1
        board == db.boards[p.s]
        written == [board EXCEPT
                       !.memory[p.m] = p.payload,
                       !.last_compressed_at[p.m] = now,
                       !.sessions_since_compression[p.m] = 0]
    IN  [db |-> [db EXCEPT !.boards[p.s] = written, !.clock = now],
         p |-> [p EXCEPT !.pc = "done", !.ret = ReturnPayload(p.payload)]]

\* the commit without the counter reset
CompressCommitKeepsCounter(db, p) ==
    LET now == db.clock + 1
        board == db.boards[p.s]
        written == [board EXCEPT
                       !.memory[p.m] = p.payload,
                       !.last_compressed_at[p.m] = now]
        flagged == [i \in DOMAIN db.insights[p.m] |->
                       IF i \in Range(p.batch)
                       THEN [db.insights[p.m][i] EXCEPT !.is_compressed = TRUE,
                                                        !.compressed_at = now]
                       ELSE db.insights[p.m][i]]
    IN  [db |-> [db EXCEPT !.boards[p.s] = written,
                           !.insights[p.m] = flagged,
                           !.clock = now],
         p |-> [p EXCEPT !.pc = "done", !.ret = ReturnPayload(p.payload)]]

\* lines 366-377: slot, timestamp, counter and the flags of the batch are
\* written by one commit.  The ORM writes the columns whose value differs
\* from the loaded one: a counter loaded as 0 is not written.
CompressCommit(db, p) ==
    LET now == db.clock + 1
        board == db.boards[p.s]
        written == [board EXCEPT
                       !.memory[p.m] = p.payload,
                       !.last_compressed_at[p.m] = now,
                       !.sessions_since_compression[p.m] =
                           IF p.counter_read = 0 THEN @ ELSE 0]
        flagged == [i \in DOMAIN db.insights[p.m] |->
                       IF i \in Range(p.batch)
                       THEN [db.insights[p.m][i] EXCEPT !.is_compressed = TRUE,
                                                        !.compressed_at = now]
                       ELSE db.insights[p.m][i]]
    IN  [db |-> [db EXCEPT !.boards[p.s] = written,
                           !.insights[p.m] = flagged,
                           !.clock = now],
         p |-> [p EXCEPT !.pc = "done", !.ret = ReturnPayload(p.payload)]]

\* get_adaptive_question_focus, lines 1587-1593 and 1607-1608: the question
\* types returned for an empty memory, and those put in when no weak area
\* has priority high
DefaultQuestionTypes == <<"inference", "main_idea", "detail", "vocabulary">>

StandardQuestionTypes == <<"inference", "main_idea", "detail">>

\* [...][:5]  # Top 5
ChallengeCap == 5

\* get_adaptive_question_focus, lines 1587-1616, on the value
\* get_reading_memory returned; `cap` is the 5 of [:5]
FocusWithCap(memory, cap) ==
    IF memory = EmptyPayload
    THEN [challenge_words |-> <<>>,
          question_types_priority |-> DefaultQuestionTypes,
          difficulty_level |-> "intermediate",
          memory_summary |-> NoSummary]
    ELSE LET challenge ==
                 SelectSeq(memory.vocabulary_gaps,
                           LAMBDA item : item.priority \in {"high", "medium"})
             high == SelectSeq(memory.comprehension_weaknesses,
                               LAMBDA item : item.priority = "high")
         IN  [challenge_words |->
                  Take([i \in DOMAIN challenge |-> challenge[i].key], cap),
              question_types_priority |->
                  IF high = <<>> THEN StandardQuestionTypes
                  ELSE [i \in DOMAIN high |-> high[i].key],
              difficulty_level |->
                  IF Len(memory.vocabulary_gaps) < 3 THEN "advanced" ELSE "intermediate",
              memory_summary |-> memory.summary]

\* the hints cut like the payload lists, to ten words
AdaptiveQuestionFocusTopTen(memory) == FocusWithCap(memory, TopN)

AdaptiveQuestionFocus(memory) == FocusWithCap(memory, ChallengeCap)

ReturnHints(h) == [kind |-> "hints", b |-> FALSE, payload |-> h, id |-> 0]

\* get_<module>_memory, lines 59-65: the slot of the board row.  A row
\* found by the lookup is returned as loaded; a row the call has just
\* inserted is read again after the commit of the insert.
\* The hint provider derives its hints from the reading slot.
GetMemoryReturn(db, p) ==
    LET memory == db.boards[p.s].memory[p.m] IN
    [db |-> db,
     p |-> [p EXCEPT !.pc = "done",
                     !.ret = IF p.name = "hints"
                             THEN ReturnHints(AdaptiveQuestionFocus(memory))
                             ELSE ReturnPayload(memory)]]

GetMemoryLookup(db, p) ==
    IF HasBoard(db, p.s) THEN GetMemoryReturn(db, p)
    ELSE LookupBoard(db, p, "g_return")

\* one database interaction (or the Summarizer call) of request p
Step(db, p, api) ==
    CASE p.pc = "e_insert" -> ExtractInsert(db, p)
      [] p.pc = "e_board" -> LookupBoard(db, p, "e_incr")
      [] p.pc = "e_incr" -> ExtractIncrement(db, p)
      [] p.pc = "s_board" -> LookupBoard(db, p, "s_count")
      [] p.pc = "s_count" -> ShouldCompressCount(db, p)
      [] p.pc = "c_read" -> CompressRead(db, p)
      [] p.pc = "c_summarize" -> CompressSummarize(db, p, api)
      [] p.pc = "c_board" -> LookupBoard(db, p, "c_commit")
      [] p.pc = "c_commit" -> CompressCommit(db, p)
      [] p.pc = "g_board" -> GetMemoryLookup(db, p)
      [] p.pc = "g_return" -> GetMemoryReturn(db, p)
      [] p.pc = "b_insert" -> InsertBoard(db, p)

\* the whole operation, run without interruption
RECURSIVE Run(_, _, _)
Run(db, p, api) ==
    IF p.pc = "done" THEN [db |-> db, p |-> p]
    ELSE LET r == Step(db, p, api) IN Run(r.db, r.p, api)

\* the operation up to its Summarizer call, or to its end if it makes none
RECURSIVE RunToCall(_, _)
RunToCall(db, p) ==
    IF p.pc \in {"done", "c_summarize"} THEN [db |-> db, p |-> p]
    ELSE LET r == Step(db, p, "not_called") IN RunToCall(r.db, r.p)

(***************************************************************************)
(* Spec: the operations of the service and the completion handlers, each   *)
(* run as a whole, one after the other, on the (student, module) pair      *)
(* `scope` chosen at the start.  `op` is the request that ran last, with   *)
(* its arguments and its result.                                           *)
(***************************************************************************)
Db == [boards |-> boards, insights |-> insights, clock |-> clock]

NoAgg == [m |-> "none", batch |-> <<>>, payload |-> EmptyPayload]

\* the sessions completed in the behaviours of Spec
LifecycleSessions == {1}

\* the arguments an extraction can be called with: a session id (0: no such
\* row) and the order list(set(...)) came out in
ExtractInputs(m, sids) ==
    {in \in sids \X UNION {Enumerations(StruggledSet(m, x)) : x \in sids} :
        in[2] \in Enumerations(StruggledSet(m, in[1]))}
    \cup (IF m = "conversation" THEN {} ELSE {<<NoSession, <<>> >>})

Init ==
    /\ boards = EmptyDb.boards
    /\ insights = EmptyDb.insights
    /\ clock = 0
    /\ scope \in {sc \in Students \X Modules : sc[1] = 1}
    /\ op = Idle
    /\ procs = [p \in Procs |-> Idle]
    /\ agg = NoAgg

\* request p runs from the current database to its end
Ran(r) ==
    /\ boards' = r.db.boards
    /\ insights' = r.db.insights
    /\ clock' = r.db.clock
    /\ op' = r.p
    /\ UNCHANGED <<scope, procs, agg>>

Runs(p) ==
    LET called == RunToCall(Db, p) IN
    IF called.p.pc = "done"
    THEN Ran(called)
    ELSE \E api \in ApiOutcomes : Ran(Run(called.db, called.p, api))

Extract ==
    /\ Len(insights[scope[2]]) < MaxInsights
    /\ \E in \in ExtractInputs(scope[2], LifecycleSessions) :
          Runs(StartExtract(scope[1], scope[2], in[1], in[2]))

ShouldCompress ==
    Runs(StartShouldCompress(scope[1], scope[2]))

Compress ==
    \E use_ai \in BOOLEAN :
        Runs(StartCompress(scope[1], scope[2], use_ai))

GetMemory ==
    Runs(StartGetMemory(scope[1], scope[2]))

CompleteSession ==
    /\ Len(insights[scope[2]]) < MaxInsights
    /\ \E in \in ExtractInputs(scope[2], LifecycleSessions) :
          Runs(StartCompleteSession(scope[1], scope[2], in[1], in[2]))

Next ==
    \/ Extract
    \/ ShouldCompress
    \/ Compress
    \/ GetMemory
    \/ CompleteSession

Spec == Init /\ [][Next]_vars

(***************************************************************************)
(* SpecFault and SpecConc: the same requests, one database interaction     *)
(* per step.  In SpecFault one worker serves one request at a time and a   *)
(* request can be aborted before any of its steps (its uncommitted work    *)
(* is rolled back with the session).  In SpecConc two workers serve        *)
(* requests for the same (student, module) at the same time; the code      *)
(* takes no lock and the database runs each commit on its own.             *)
(***************************************************************************)
Busy(p) == procs[p].pc \notin {"idle", "done"}

\* the answers of the provider in SpecFault and SpecConc: one of each kind
\* the compression code tells apart
StepAnswers == {"text", "api_exception", "client_init_raises"}

Requests(s, m) ==
    {StartExtract(s, m, in[1], in[2]) : in \in ExtractInputs(m, LifecycleSessions)}
    \cup {StartCompleteSession(s, m, in[1], in[2]) : in \in ExtractInputs(m, LifecycleSessions)}
    \cup {StartCompress(s, m, use_ai) : use_ai \in BOOLEAN}
    \cup {StartShouldCompress(s, m), StartGetMemory(s, m)}

\* the requests two workers serve side by side in SpecConc: the calls the
\* handlers and the forced-compression route make (always use_ai=True)
ConcRequests(s, m) ==
    {StartExtract(s, m, in[1], in[2]) : in \in ExtractInputs(m, LifecycleSessions) \ {<<NoSession, <<>> >>}}
    \cup {StartCompress(s, m, TRUE), StartShouldCompress(s, m), StartGetMemory(s, m)}

RequestStart(p, requests) ==
    /\ ~Busy(p)
    /\ \E req \in requests :
          /\ req.pc = "e_insert" => Len(insights[scope[2]]) < MaxStepInsights
          /\ procs' = [procs EXCEPT ![p] = req]
    /\ UNCHANGED <<boards, insights, clock, scope, op, agg>>

\* what a worker keeps of a request that has returned
Returned(req) ==
    IF req.pc = "done"
    THEN [Idle EXCEPT !.pc = "done", !.name = req.name, !.handler = req.handler,
                      !.s = req.s, !.m = req.m, !.api = req.api, !.err = req.err]
    ELSE req

\* a worker of SpecConc keeps nothing of a request that has returned
Released(req) == IF req.pc = "done" THEN Idle ELSE req

\* `keeps`: the worker keeps the outcome of a returned request (SpecFault)
RequestStep(p, answers, keeps) ==
    /\ Busy(p)
    /\ \E api \in IF procs[p].pc = "c_summarize" THEN answers ELSE {"not_called"} :
          LET r == Step(Db, procs[p], api) IN
          /\ boards' = r.db.boards
          /\ insights' = r.db.insights
          /\ clock' = r.db.clock
          /\ procs' = [procs EXCEPT ![p] = IF keeps THEN Returned(r.p) ELSE Released(r.p)]
    /\ UNCHANGED <<scope, op, agg>>

\* the request is aborted where it stands; nothing it has not committed
\* reaches the database
RequestFault(p) ==
    /\ Busy(p)
    /\ procs' = [procs EXCEPT ![p] = Returned(Raise(Db, procs[p], "fault").p)]
    /\ UNCHANGED <<boards, insights, clock, scope, op, agg>>

NextFault ==
    \E p \in {1} :
        \/ RequestStart(p, Requests(scope[1], scope[2]))
        \/ RequestStep(p, StepAnswers, TRUE)
        \/ RequestFault(p)

SpecFault == Init /\ [][NextFault]_vars

NextConc ==
    \E p \in Procs :
        \/ RequestStart(p, ConcRequests(scope[1], scope[2]))
        \/ RequestStep(p, {"text", "api_exception"}, FALSE)

SpecConc == Init /\ [][NextConc]_vars

(***************************************************************************)
(* SpecAgg: the frequency aggregation of a compression run on its own.     *)
(* The batch is any list of up to MaxBatch Insights that the extraction    *)
(* of the module produces from the sample sessions; the one action builds  *)
(* the payload as compress_<module>_memory does.                           *)
(***************************************************************************)
\* the data of the Insights an extraction of module m can have stored
ExtractedData(m) ==
    {InsightData(m, in[1], in[2]) :
        in \in ExtractInputs(m, SessionIds) \ {<<NoSession, <<>> >>}}

Batches(m) == UNION {[1..n -> ExtractedData(m)] : n \in 1..MaxBatch}

InitAgg ==
    /\ boards = EmptyDb.boards
    /\ insights = EmptyDb.insights
    /\ clock = 0
    /\ op = Idle
    /\ procs = [p \in Procs |-> Idle]
    /\ \E m \in Modules :
          \E batch \in Batches(m) :
              /\ scope = <<1, m>>
              /\ agg = [m |-> m, batch |-> batch, payload |-> EmptyPayload]

Aggregate ==
    /\ agg.payload = EmptyPayload
    /\ agg' = [agg EXCEPT !.payload = BuildPayload(agg.m, agg.batch, clock + 1)]
    /\ UNCHANGED <<boards, insights, clock, scope, op, procs>>

NextAgg == Aggregate

SpecAgg == InitAgg /\ [][NextAgg]_vars

(***************************************************************************)
(* SpecScenario: compress_speaking_memory(use_ai=False) on the five        *)
(* Speaking Insights of the specification's worked example, created in     *)
(* any order: three hold 'comfortable' (accuracies 60, 65, 68), two hold   *)
(* 'world' (accuracies 80, 82).                                            *)
(***************************************************************************)
\* the word and accuracy of each Insight of the example
ScenarioWords ==
    <<[key |-> "comfortable", accuracy |-> 60],
      [key |-> "comfortable", accuracy |-> 65],
      [key |-> "comfortable", accuracy |-> 68],
      [key |-> "world", accuracy |-> 80],
      [key |-> "world", accuracy |-> 82]>>

ScenarioSize == Len(ScenarioWords)

\* the SpeakingMemoryInsight row of the k-th Insight, created at time t
ScenarioInsight(k, t) ==
    [student_id |-> 1,
     session_id |-> k,
     data |-> [mispronounced_words |-> <<ScenarioWords[k]>>,
               phoneme_errors |-> <<>>,
               fluency_problems |-> <<>>],
     is_compressed |-> FALSE,
     compressed_at |-> 0,
     created_at |-> t]

\* the orders in which the five Insights can have been created
CreationOrders ==
    {f \in [1..ScenarioSize -> 1..ScenarioSize] :
        \A i, j \in 1..ScenarioSize : f[i] = f[j] => i = j}

InitScenario ==
    /\ \E f \in CreationOrders :
          insights = [EmptyDb.insights EXCEPT
                         !["speaking"] = [t \in 1..ScenarioSize |-> ScenarioInsight(f[t], t)]]
    /\ boards = [EmptyDb.boards EXCEPT
                    ![1] = [NewBoard EXCEPT
                               !.sessions_since_compression["speaking"] = ScenarioSize]]
    /\ clock = ScenarioSize
    /\ scope = <<1, "speaking">>
    /\ op = Idle
    /\ procs = [p \in Procs |-> Idle]
    /\ agg = NoAgg

ScenarioCompress ==
    /\ op = Idle
    /\ Runs(StartCompress(scope[1], scope[2], FALSE))

NextScenario == ScenarioCompress

SpecScenario == InitScenario /\ [][NextScenario]_vars

----------------------------------------------------------------------------
\* Extraction over every row of the session tables: the sample sessions, a
\* completed session with NULL columns and a session still in progress.

MaxExtracts == 2

\* the rows extract_*_insights can be pointed at
ExtractableSessions(m) ==
    IF m = "conversation" THEN SessionIds ELSE SessionIds \cup EdgeSessionIds

InitExtract ==
    /\ boards = EmptyDb.boards
    /\ insights = EmptyDb.insights
    /\ clock = 0
    /\ scope \in {sc \in Students \X Modules : sc[1] = 1}
    /\ op = Idle
    /\ procs = [p \in Procs |-> Idle]
    /\ agg = NoAgg

ExtractSession ==
    /\ Len(insights[scope[2]]) < MaxExtracts
    /\ \E in \in ExtractInputs(scope[2], ExtractableSessions(scope[2])) :
          Runs(StartExtract(scope[1], scope[2], in[1], in[2]))

NextExtract == ExtractSession

SpecExtract == InitExtract /\ [][NextExtract]_vars

----------------------------------------------------------------------------
\* A completion handler next to a first read for the same student: worker 1
\* serves the handler of a completed session, worker 2 get_<module>_memory.

\* the errors raised by a commit; they leave the ORM session in a failed
\* transaction until it is rolled back
DbErrors == {"IntegrityError", "fault"}

\* the handlers whose code after the memory block reads attributes of the
\* session row (reading_service.py:559-572, routes/listening.py:523-527);
\* the rows are expired by the commits before
ReloadsSession(m) == m \in {"reading", "listening"}

\* what the handler returns once its memory block has ended in p
HandlerResult(p) ==
    IF p.err \in DbErrors /\ ReloadsSession(p.m) THEN "error" ELSE "completed"

HandlerRequests(s, m) ==
    {StartCompleteSession(s, m, in[1], in[2]) :
        in \in {x \in ExtractInputs(m, ExtractableSessions(m)) :
                    x[1] # NoSession /\ IsCompleted(m, x[1])}}

HandlerStart == RequestStart(1, HandlerRequests(scope[1], scope[2]))

ReaderStart == RequestStart(2, {StartGetMemory(scope[1], scope[2])})

HandlerStep == \E p \in Procs : RequestStep(p, {"text", "api_exception"}, TRUE)

NextHandler ==
    \/ HandlerStart
    \/ ReaderStart
    \/ HandlerStep

SpecHandler == Init /\ [][NextHandler]_vars

----------------------------------------------------------------------------
\* One worker and a provider that may leave a request unanswered: a request
\* that has started keeps taking its steps (the worker is not descheduled
\* for ever and the client's wait ends with the library's timeout).

LiveAnswers == {"text", "api_exception", NoResponse}

LiveRequests(s, m) ==
    {StartExtract(s, m, in[1], in[2]) : in \in ExtractInputs(m, LifecycleSessions)}
    \cup {StartCompress(s, m, use_ai) : use_ai \in BOOLEAN}

LiveStart == RequestStart(1, LiveRequests(scope[1], scope[2]))

LiveStep == RequestStep(1, LiveAnswers, TRUE)

NextLive ==
    \/ LiveStart
    \/ LiveStep

SpecLive == Init /\ [][NextLive]_vars /\ WF_vars(LiveStep)

----------------------------------------------------------------------------
\* The hint provider on the reading payloads a compression can have stored.

MaxGaps == 6

MaxHintSkills == 2

HintWords ==
    <<"ephemeral", "lucid", "candid", "arduous", "benign", "concise", "diligent", "elusive">>

HintSkills == {"inference", "detail", "main_idea"}

\* the frequencies of a listed entry: medium and high priority
HintFrequencies == {2, 3}

\* vocabulary_gaps of n words, in dict order
GapLists ==
    UNION {{[i \in 1..n |-> [key |-> HintWords[i], frequency |-> f[i],
                             priority |-> Priority(f[i])]] :
               f \in [1..n -> HintFrequencies]} : n \in 0..MaxGaps}

\* comprehension_weaknesses: distinct skills in dict order
WeaknessLists ==
    UNION {{[i \in 1..n |-> [key |-> sk[i], frequency |-> f[i],
                             priority |-> Priority(f[i])]] :
               sk \in {x \in [1..n -> HintSkills] :
                          \A i, j \in 1..n : i # j => x[i] # x[j]},
               f \in [1..n -> HintFrequencies]} : n \in 0..MaxHintSkills}

\* the reading slot after a compression of one Insight or of several
HintPayloads ==
    {[module |-> "reading",
      vocabulary_gaps |-> gaps,
      comprehension_weaknesses |-> weak,
      reading_speed_issue |-> FALSE,
      completion_issue |-> FALSE,
      total_sessions_analyzed |-> MAX_UNCOMPRESSED_INSIGHTS,
      last_compressed_at |-> 1,
      summary |-> AnalysisComplete] : gaps \in GapLists, weak \in WeaknessLists}

InitHints ==
    /\ \E b \in {NoBoard} \cup {[NewBoard EXCEPT !.memory["reading"] = pl,
                                                !.last_compressed_at["reading"] = 1] :
                                   pl \in HintPayloads}
                         \cup {NewBoard} :
          boards = [s \in Students |-> IF s = 1 THEN b ELSE NoBoard]
    /\ insights = EmptyDb.insights
    /\ clock = 1
    /\ scope = <<1, "reading">>
    /\ op = Idle
    /\ procs = [p \in Procs |-> Idle]
    /\ agg = NoAgg

GetHints ==
    /\ op = Idle
    /\ Runs(StartGetHints(scope[1]))

NextHints == GetHints

SpecHints == InitHints /\ [][NextHints]_vars

----------------------------------------------------------------------------
\* Completion handlers one after the other, with forced compressions
\* between them: the only extractions are those of the handlers.

NextTrigger ==
    \/ CompleteSession
    \/ Compress

SpecTrigger == Init /\ [][NextTrigger]_vars

----------------------------------------------------------------------------
\* Two workers that serve extractions and compressions only.

InterleavedRequests(s, m) ==
    {req \in ConcRequests(s, m) : req.name \in {"extract", "compress"}}

NextInterleave ==
    \E p \in Procs :
        \/ RequestStart(p, InterleavedRequests(scope[1], scope[2]))
        \/ RequestStep(p, {"text", "api_exception"}, FALSE)

SpecInterleave == Init /\ [][NextInterleave]_vars

----------------------------------------------------------------------------
\* Operations for several students and modules in one run: the caller turns
\* from one (student, module) to another between operations.

IsolationScopes == {<<1, "reading">>, <<1, "listening">>, <<2, "reading">>}

InitIsolation ==
    /\ boards = EmptyDb.boards
    /\ insights = EmptyDb.insights
    /\ clock = 0
    /\ scope \in IsolationScopes
    /\ op = Idle
    /\ procs = [p \in Procs |-> Idle]
    /\ agg = NoAgg

\* the next request is for another student or module
TurnTo ==
    /\ \E sc \in IsolationScopes \ {scope} : scope' = sc
    /\ UNCHANGED <<boards, insights, clock, op, procs, agg>>

\* the rows of the tables the run adds to
StoredInsights == Len(insights["reading"]) + Len(insights["listening"])

ExtractFor ==
    /\ StoredInsights <= MaxStepInsights
    /\ \E in \in ExtractInputs(scope[2], LifecycleSessions) :
          Runs(StartExtract(scope[1], scope[2], in[1], in[2]))

CompressFor == Runs(StartCompress(scope[1], scope[2], FALSE))

NextIsolation ==
    \/ TurnTo
    \/ ExtractFor
    \/ CompressFor

SpecIsolation == InitIsolation /\ [][NextIsolation]_vars

(***************************************************************************)
(* Properties.  S and M are the student and the module of the behaviour.   *)
(***************************************************************************)
S == scope[1]

M == scope[2]

\* the Insight rows of (student, module) still to be compressed, counted
\* on the table itself
Uncompressed(rows, s) ==
    {i \in DOMAIN rows : rows[i].student_id = s /\ ~rows[i].is_compressed}

\* the module's part of the board row; a student without a row has the
\* column defaults
SlotOf(bs, s, m) ==
    IF bs[s].absent
    THEN [payload |-> EmptyPayload, last_compressed_at |-> 0, counter |-> 0]
    ELSE [payload |-> bs[s].memory[m],
          last_compressed_at |-> bs[s].last_compressed_at[m],
          counter |-> bs[s].sessions_since_compression[m]]

\* no row of the module has been compressed so far
NoCompressionYet == \A i \in DOMAIN insights[M] : ~insights[M][i].is_compressed

\* C1 (threshold exactness): should_compress_<module>_memory returns true
\* exactly when at least COMPRESSION_THRESHOLD (5) uncompressed Insights of
\* the module exist for the student; with no compression so far that is
\* false after each of the first 4 extractions and true after the 5th.
C1_ThresholdExactness ==
    (op.name = "should_compress") =>
        /\ op.err = "none"
        /\ op.ret = ReturnBool(Cardinality(Uncompressed(insights[M], S)) >= 5)
        /\ NoCompressionYet => (op.ret.b <=> Len(insights[M]) >= 5)

C1_Witness ==
    /\ op.name = "should_compress"
    /\ op.ret.b
    /\ NoCompressionYet
    /\ Len(insights[M]) = 5

\* a compression run that had a batch and committed
Compressed(r) ==
    /\ r.name = "compress"
    /\ r.err = "none"
    /\ r.ret.kind = "payload"
    /\ r.ret.payload # EmptyPayload

\* the second of two compress calls in a row, the first one successful
C4_Step ==
    (Compressed(op) /\ op'.name = "compress") =>
        /\ SlotOf(boards', S, M) = SlotOf(boards, S, M)
        /\ boards' = boards
        /\ insights' = insights
        /\ op'.ret = ReturnPayload(EmptyPayload)

\* C4 (idempotence of compression): compress_<module>_memory called again
\* right after a successful run, with no extraction in between, leaves the
\* Memory Board (payload, last_compressed_at, counter) unchanged and changes
\* is_compressed and compressed_at of no Insight.
C4_Idempotence == [][C4_Step]_vars

\* a compress call has returned empty-handed and no row was written since
\* the compression before it
C4_Witness ==
    /\ op.name = "compress"
    /\ op.ret = ReturnPayload(EmptyPayload)
    /\ ~boards[S].absent
    /\ boards[S].memory[M] # EmptyPayload
    /\ boards[S].last_compressed_at[M] = clock

\* a compress call on a (student, module) without uncompressed Insights
C7_Step ==
    (op'.name = "compress" /\ Uncompressed(insights[M], S) = {}) =>
        /\ op'.ret = ReturnPayload(EmptyPayload)
        /\ op'.err = "none"
        /\ boards' = boards
        /\ insights' = insights
        /\ clock' = clock

\* C7 (no-op on empty batch): with no uncompressed Insight for (student,
\* module), compress_<module>_memory returns an empty result and changes
\* nothing that is persisted: it creates no Memory Board and leaves the
\* payload, last_compressed_at, the counter and all Insights as they were.
C7_NoOpOnEmptyBatch == [][C7_Step]_vars

\* compress has returned empty-handed for a student who still has no board
C7_Witness ==
    /\ op.name = "compress"
    /\ op.ret = ReturnPayload(EmptyPayload)
    /\ boards[S].absent
    /\ insights[M] = <<>>

\* a successful extract call: the table before and after it
C8_Step ==
    (op'.name = "extract" /\ op'.err = "none") =>
        LET n == Len(insights[M]) IN
        /\ Len(insights'[M]) = n + 1
        /\ SubSeq(insights'[M], 1, n) = insights[M]
        /\ insights'[M][n + 1].student_id = S
        /\ insights'[M][n + 1].is_compressed = FALSE
        /\ insights'[M][n + 1].compressed_at = 0
        /\ \A m \in Modules \ {M} : insights'[m] = insights[m]
        /\ SlotOf(boards', S, M).counter = SlotOf(boards, S, M).counter + 1

\* C8 (extraction side effect): a successful
\* extract_<module>_session_insights call appends exactly one Insight for
\* (student, module), with is_compressed false and compressed_at unset, and
\* raises the student's <module>_sessions_since_compression by exactly 1.
C8_ExtractionSideEffect == [][C8_Step]_vars

\* an extraction has succeeded on top of an earlier one
C8_Witness ==
    /\ op.name = "extract"
    /\ op.err = "none"
    /\ op.ret.kind = "insight"
    /\ op.ret.id = 2
    /\ SlotOf(boards, S, M).counter = 2

\* C9 (counter invariant): after any sequence of completed operations that
\* do not overlap, starting without Memory Board and Insights,
\* <module>_sessions_since_compression equals the number of the student's
\* Insights of the module with is_compressed false; it is 0 right after a
\* successful compression, and counter >= 5 coincides with the result of
\* should_compress.
C9_CounterInvariant ==
    LET counter == SlotOf(boards, S, M).counter IN
    /\ counter = Cardinality(Uncompressed(insights[M], S))
    /\ Compressed(op) => counter = 0
    /\ op.name = "should_compress" => (op.ret.b <=> counter >= 5)

\* extractions have followed a compression
C9_Witness ==
    /\ \E i \in DOMAIN insights[M] : insights[M][i].is_compressed
    /\ SlotOf(boards, S, M).counter = 2

\* worker w is inside compress_<module>_memory (called directly or by a
\* completion handler)
InCompress(w) ==
    \/ procs[w].pc \in {"c_read", "c_summarize", "c_board", "c_commit"}
    \/ procs[w].pc = "b_insert" /\ procs[w].next = "c_commit"

\* the complete result of the run of worker w: the five effects together
CompleteResult(w) ==
    LET run == procs[w]
        slot == SlotOf(boards', run.s, run.m)
    IN  /\ run.batch # <<>>
        /\ slot.payload = run.payload
        /\ slot.last_compressed_at = clock'
        /\ slot.last_compressed_at > SlotOf(boards, run.s, run.m).last_compressed_at
        /\ slot.counter = 0
        /\ DOMAIN insights'[run.m] = DOMAIN insights[run.m]
        /\ \A i \in DOMAIN insights[run.m] :
              IF i \in Range(run.batch)
              THEN insights'[run.m][i] =
                      [insights[run.m][i] EXCEPT !.is_compressed = TRUE,
                                                 !.compressed_at = clock']
              ELSE insights'[run.m][i] = insights[run.m][i]

\* a step of a compression run, or the fault that aborts it
C2_Step ==
    InCompress(1) =>
        \/ /\ SlotOf(boards', S, M) = SlotOf(boards, S, M)
           /\ insights' = insights
        \/ CompleteResult(1)

\* what the table and the board say about each other: a row is flagged
\* exactly when the slot holds a payload stamped after the row was created
C2_Consistent ==
    LET slot == SlotOf(boards, S, M) IN
    \A i \in DOMAIN insights[M] :
        /\ insights[M][i].is_compressed <=>
              (slot.payload # EmptyPayload
                  /\ insights[M][i].created_at < slot.last_compressed_at)
        /\ insights[M][i].is_compressed =>
              insights[M][i].compressed_at <= slot.last_compressed_at

\* C2 (atomicity of compress_<module>_memory): when a fault aborts a
\* compression run at any point, the persisted state is either the complete
\* result (slot holds the new payload, last_compressed_at updated, counter
\* 0, every Insight of the batch flagged) or the state before the run; no
\* state shows the new payload with Insights of its batch uncompressed, or
\* flagged Insights of a batch with the old payload in the slot.
C2_Atomicity == [](C2_Consistent) /\ [][C2_Step]_vars

\* a fault has aborted a compression run between the Summarizer call and
\* the commit; its batch is still uncompressed
C2_Witness ==
    /\ procs[1].name \in {"compress", "complete_session"}
    /\ procs[1].err = "fault"
    /\ procs[1].api = "text"
    /\ Uncompressed(insights[M], S) # {}

\* C3 (mutual exclusion of compression): when two handlers, or a handler
\* and a forced compression, for the same (student, module) run at the same
\* time, their read-batch -> aggregate -> write-board -> mark-compressed
\* sequences never overlap, so no Insight is in the batch of more than one
\* compression run.
C3_MutualExclusion ==
    \A v, w \in Procs :
        (v # w /\ InCompress(v) /\ InCompress(w)) =>
            Range(procs[v].batch) \cap Range(procs[w].batch) = {}

\* a flagged row stays flagged (and stays in the table)
C5_Step ==
    \A m \in Modules :
        \A i \in DOMAIN insights[m] :
            insights[m][i].is_compressed =>
                /\ i \in DOMAIN insights'[m]
                /\ insights'[m][i].is_compressed

\* C5 (compressed-flag monotonicity): under any sequence and any
\* interleaving of extract, should_compress, compress and get_memory
\* (get_hints reads the board through get_memory), an Insight whose
\* is_compressed is true never becomes false again.
C5_FlagMonotonic == [][C5_Step]_vars

\* a row is flagged while a compression of later rows and another request
\* are in progress
C5_Witness ==
    /\ \E i \in DOMAIN insights[M] : insights[M][i].is_compressed
    /\ \E i \in DOMAIN insights[M] : ~insights[M][i].is_compressed
    /\ procs[1].pc = "c_commit"
    /\ Busy(2)

\* compress was called with use_ai = true on a batch and the Summarizer
\* call failed
SummarizerFailed(r) ==
    /\ r.name = "compress"
    /\ r.use_ai
    /\ r.batch # <<>>
    /\ r.api \in SummarizerFailures

\* the run completed all the same: payload written and returned, counter
\* reset, batch flagged, summary present
C6_RunCompletes ==
    SummarizerFailed(op) =>
        /\ op.err = "none"
        /\ op.ret = ReturnPayload(SlotOf(boards, S, M).payload)
        /\ SlotOf(boards, S, M).counter = 0
        /\ \A i \in Range(op.batch) : insights[M][i].is_compressed
        /\ op.ret.payload.summary \notin {NoSummary, AiText("")}

\* the summary is the one every other failure yields on this batch
C6_SameSummary ==
    SummarizerFailed(op) =>
        \A api \in SummarizerFailures :
            SummaryFor(api, Len(op.batch)) = op.ret.payload.summary

\* C6 (Summarizer fallback): when compress_<module>_memory is called with
\* use_ai = true and the Summarizer call fails (raises, times out, returns
\* an error or a malformed response), the run still writes the payload,
\* resets the counter, flags every Insight of the batch and returns a
\* payload whose summary is a non-null string, the same for every failure
\* on the same batch.
C6_SummarizerFallback == C6_RunCompletes /\ C6_SameSummary

\* C10 (chronic exclusion): in every module's compressed payload every
\* ranked pattern list (vocabulary gaps, comprehension weaknesses, chronic
\* pronunciation errors, problem phonemes, chronic grammar errors, style,
\* vocabulary and content patterns, fluency patterns, topic struggles)
\* contains only keys with frequency >= 2; a key found once in the batch is
\* in no list.
C10_ChronicExclusion ==
    agg.payload # EmptyPayload =>
        LET lists == PatternLists(agg.m, agg.payload) IN
        \A k \in DOMAIN lists :
            \A j \in DOMAIN lists[k] : lists[k][j].frequency >= 2

\* the entries of the ranked lists of the payload just built
ListedEntries ==
    LET lists == PatternLists(agg.m, agg.payload) IN
    UNION {{lists[k][j] : j \in DOMAIN lists[k]} : k \in DOMAIN lists}

\* C11 (priority thresholds): in every module's compressed payload a listed
\* pattern with frequency >= 3 has priority 'high' and one with frequency
\* exactly 2 has priority 'medium'; the 2/3 thresholds are the same for all
\* five modules and all pattern lists.
C11_PriorityThresholds ==
    agg.payload # EmptyPayload =>
        \A e \in ListedEntries :
            "priority" \in DOMAIN e =>
                /\ e.frequency >= 3 => e.priority = "high"
                /\ e.frequency = 2 => e.priority = "medium"

\* the keys the data d of one Insight holds for the k-th ranked list of
\* module m (in the order of PatternLists), as the aggregation reads them
SourceKeys(m, k, d) ==
    CASE m = "reading" ->
            IF k = 1 THEN ItemKeys(d.vocabulary_mistakes) ELSE d.question_types_struggled
      [] m = "listening" -> d.question_types_struggled
      [] m = "speaking" ->
            IF k = 1 THEN Project(ItemKeys(d.mispronounced_words), Lower)
            ELSE IF k = 2 THEN ItemKeys(d.phoneme_errors)
            ELSE d.fluency_problems
      [] m = "writing" ->
            IF k = 1 THEN ItemKeys(d.grammar_errors)
            ELSE IF k = 2 THEN ItemKeys(d.style_issues)
            ELSE IF k = 3 THEN ItemKeys(d.vocabulary_issues)
            ELSE ItemKeys(d.content_weaknesses)
      [] m = "conversation" ->
            IF k = 1 THEN ItemKeys(d.grammar_errors)
            ELSE IF k = 2 THEN ItemKeys(d.vocabulary_gaps)
            ELSE IF k = 3 THEN d.fluency_issues
            ELSE IF k = 4 THEN d.topic_struggles
            ELSE IF k = 5 THEN Project(ItemKeys(d.mispronounced_words), Lower)
            ELSE ItemKeys(d.phoneme_errors)

\* the Insights of the batch in which the key appears for the k-th list
InsightsWith(m, k, batch, key) ==
    {i \in DOMAIN batch : key \in Range(SourceKeys(m, k, batch[i]))}

\* C12 (frequency counts Insights, not occurrences): for every key of a
\* compressed payload, frequency is the number of distinct Insights of the
\* batch in which the key appears; a key that appears several times inside
\* one Insight contributes 1.
C12_FrequencyCountsInsights ==
    agg.payload # EmptyPayload =>
        LET lists == PatternLists(agg.m, agg.payload) IN
        \A k \in DOMAIN lists :
            \A j \in DOMAIN lists[k] :
                lists[k][j].frequency =
                    Cardinality(InsightsWith(agg.m, k, agg.batch, lists[k][j].key))

\* C13 (ranking and cap): every chronic list of a compressed payload is
\* ordered by non-increasing frequency and has at most 10 entries (the 10
\* keys of highest frequency when more qualify).
C13_RankingAndCap ==
    agg.payload # EmptyPayload =>
        LET lists == PatternLists(agg.m, agg.payload) IN
        \A k \in DOMAIN lists :
            /\ Len(lists[k]) <= 10
            /\ \A i, j \in DOMAIN lists[k] :
                  i < j => lists[k][i].frequency >= lists[k][j].frequency

\* a fraction in tenths, rounded half up (64.33.. reads 643)
Tenths(f) == (20 * f.num + f.den) \div (2 * f.den)

C15_Step ==
    (op'.name = "extract" /\ M # "conversation" /\ op'.sid = NoSession) =>
        /\ op'.err = "ValueError"
        /\ op'.ret = NoReturn
        /\ boards' = boards
        /\ insights' = insights
        /\ clock' = clock

\* C15 (SessionNotFound): extract_reading/listening/speaking/writing_
\* session_insights called with a session id that references no session
\* fails with an error surfaced to the caller; no Insight is appended, no
\* Memory Board is created and no counter changes.
C15_SessionNotFound == [][C15_Step]_vars

\* the call has failed for a student who still has no board
C15_Witness ==
    /\ op.name = "extract"
    /\ op.sid = NoSession
    /\ op.err = "ValueError"
    /\ boards[S].absent
    /\ insights[M] = <<>>

\* C16: extraction is only defined for completed sessions; pointed at a
\* session still in progress it must not record an Insight or count one.
C16_Step ==
    (op'.name = "extract" /\ SessionExists(M, op'.sid) /\ ~IsCompleted(M, op'.sid))
        => /\ insights' = insights
           /\ boards' = boards

C16_CompletedSessionOnly == [][C16_Step]_vars

\* C17: for every completed session that exists the extraction succeeds and
\* appends one Insight, whatever sub-records (click counts, question texts,
\* answers) the session lacks.
C17_Step ==
    (op'.name = "extract" /\ SessionExists(M, op'.sid) /\ IsCompleted(M, op'.sid))
        => /\ op'.err = "none"
           /\ Len(insights'[M]) = Len(insights[M]) + 1

C17_ExtractionTotal == [][C17_Step]_vars


\* C18: a read (get_<module>_memory, and the hint provider built on
\* get_reading_memory) changes no persisted state: it creates no Memory Board
\* and leaves payloads, counters, timestamps and Insights as they were.
C18_Step ==
    op'.name = "get_memory"
        => /\ boards' = boards
           /\ insights' = insights

C18_ReadsArePure == [][C18_Step]_vars

\* C19: when extraction, should_compress or compression raises inside a
\* completion handler, the handler catches the error and still returns the
\* completion result it returns when memory tracking succeeds.
C19_MemoryTrackingNonFatal ==
    (procs[1].handler /\ procs[1].pc = "done" /\ procs[1].err # "none")
        => HandlerResult(procs[1]) = "completed"

\* a worker that has its board in hand: past the lookup or the insert of
\* get_or_create_memory_board
PastLookup(w) == procs[w].pc \in {"e_incr", "s_count", "c_commit", "g_return"}

C20_ExactlyOne == \A w \in Procs : PastLookup(w) => HasBoard(Db, procs[w].s)

\* the board of a student, once there, stays, and an insert made for a
\* student that has a board by now adds nothing and leaves the board as it is
C20_Step ==
    \A s \in Students :
        HasBoard(Db, s) =>
            /\ ~boards'[s].absent
            /\ \A w \in Procs :
                  (procs[w].pc = "b_insert" /\ procs[w].s = s /\ procs'[w] # procs[w])
                      => boards'[s] = boards[s]

\* C20 (one Memory Board per student): there is never more than one board
\* for a student, every operation that has made its first access (get,
\* should_compress, extract, compress with a batch) has exactly one, also
\* when two first accesses for the student interleave between the lookup
\* and the insert.
C20_OneBoardPerStudent == [](C20_ExactlyOne) /\ [][C20_Step]_vars

\* two first accesses have interleaved: one worker has inserted the board
\* and holds it, the other found none and is about to insert
C20_Witness ==
    \E w, v \in Procs :
        /\ w # v
        /\ procs[w].pc = "b_insert"
        /\ procs[v].s = procs[w].s
        /\ PastLookup(v)
        /\ HasBoard(Db, procs[w].s)

\* C21 (Insight key): every Insight references the session it was extracted
\* from, and no two Insights of a student and module reference the same
\* session, whatever extractions and completions have run.
C21_InsightKey ==
    \A m \in Modules :
        \A i \in DOMAIN insights[m] :
            /\ insights[m][i].session_id # NoSession
            /\ \A j \in DOMAIN insights[m] :
                  (i # j /\ insights[m][i].student_id = insights[m][j].student_id)
                      => insights[m][i].session_id # insights[m][j].session_id

\* a compression run of worker w with a batch, before its commit
Compressing(w) == InCompress(w) /\ procs[w].batch # <<>>

\* the run of worker w has committed and returned
CompressReturned(w) ==
    procs[w].name = "compress" /\ procs[w].pc = "done" /\ procs[w].err = "none"

C23_FallbackStatesCount ==
    SummarizerFailed(op) =>
        LET stored == SlotOf(boards, S, M).payload IN
        stored.summary = AnalyzedNSessions(stored.total_sessions_analyzed)

\* the reading slot the hints were derived from
HintSource == boards[S].memory["reading"]

\* the hints returned
Hints == op.ret.payload

\* the entries of vocabulary_gaps with priority high or medium, in order
Qualifying ==
    SelectSeq(HintSource.vocabulary_gaps,
              LAMBDA item : item.priority \in {"high", "medium"})

HighSkills ==
    SelectSeq(HintSource.comprehension_weaknesses,
              LAMBDA item : item.priority = "high")

SpeedFlagged ==
    {i \in DOMAIN agg.batch :
        IF agg.m = "reading" THEN agg.batch[i].reading_speed_issue
        ELSE agg.batch[i].audio_speed_issue}

LowCompletion == {i \in DOMAIN agg.batch : agg.batch[i].completion_rate < 80}

\* C25 (majority flags): in the reading and listening payloads the speed
\* flag (and the reading completion flag) is true iff strictly more than
\* half of the Insights of the batch have the per-session flag; exactly
\* half gives false.
C25_MajorityFlags ==
    (agg.payload # EmptyPayload /\ agg.m \in {"reading", "listening"}) =>
        LET n == Len(agg.batch) IN
        /\ agg.m = "reading" =>
              /\ agg.payload.reading_speed_issue <=> 2 * Cardinality(SpeedFlagged) > n
              /\ agg.payload.completion_issue <=> 2 * Cardinality(LowCompletion) > n
        /\ agg.m = "listening" =>
              (agg.payload.audio_speed_issue <=> 2 * Cardinality(SpeedFlagged) > n)
        /\ 2 * Cardinality(SpeedFlagged) = n =>
              ~(IF agg.m = "reading" THEN agg.payload.reading_speed_issue
                ELSE agg.payload.audio_speed_issue)

\* a payload built from a batch with exactly half of its Insights flagged
C25_Witness ==
    /\ agg.payload # EmptyPayload
    /\ agg.m \in {"reading", "listening"}
    /\ 2 * Cardinality(SpeedFlagged) = Len(agg.batch)
    /\ ~(IF agg.m = "reading" THEN agg.payload.reading_speed_issue
         ELSE agg.payload.audio_speed_issue)

\* what a step may do to an Insight: leave it, or flag it once
C26_Step ==
    \A m \in Modules :
        /\ Len(insights'[m]) >= Len(insights[m])
        /\ \A i \in DOMAIN insights[m] :
              \/ insights'[m][i] = insights[m][i]
              \/ /\ ~insights[m][i].is_compressed
                 /\ insights'[m][i].is_compressed
                 /\ insights'[m][i] =
                       [insights[m][i] EXCEPT
                           !.is_compressed = TRUE,
                           !.compressed_at = insights'[m][i].compressed_at]

\* C26 (Insights are immutable and never deleted): no operation removes an
\* Insight or changes a field of it, except the one transition that sets
\* is_compressed and compressed_at; compressed_at is set at most once.
C26_InsightsImmutable == [][C26_Step]_vars

\* the uncompressed Insights of the student and module in scope
Pending(rows) == Cardinality(Uncompressed(rows, S))

\* a completion handler that returned with no step failed
C27_Step ==
    (op'.name = "complete_session" /\ op'.err = "none") =>
        /\ op'.batch # <<>> <=> Pending(insights[M]) = 4
        /\ Pending(insights'[M]) =
              IF Pending(insights[M]) = 4 THEN 0 ELSE Pending(insights[M]) + 1

\* C27 (trigger protocol): every handler checks should_compress after its
\* extraction and compresses exactly when the check is true; so, over
\* handlers that do not overlap and do not fail, at most 4 Insights are
\* uncompressed whenever a handler has returned, and the automatic
\* compression runs exactly on every 5th completion since the last
\* compression.
C27_TriggerProtocol == [](Pending(insights[M]) <= 4) /\ [][C27_Step]_vars

\* the fifth completion since the last compression has compressed
C27_Witness ==
    /\ op.name = "complete_session"
    /\ op.err = "none"
    /\ Len(op.batch) = 5
    /\ Pending(insights[M]) = 0

\* no operation is under way
Quiescent == \A w \in Procs : ~Busy(w)

\* C28 (counter consistency under interleaving): however concurrent extract
\* and compress operations on one (student, module) interleave at the
\* granularity of commits, once all of them have finished the counter
\* <module>_sessions_since_compression equals the number of uncompressed
\* Insights.
C28_CounterUnderInterleaving ==
    Quiescent =>
        SlotOf(boards, S, M).counter = Cardinality(Uncompressed(insights[M], S))

\* the payload the aggregation gives for the batch of worker w, stamped as
\* the payload of w is, with no summary
Deterministic(w) ==
    LET run == procs[w] IN
    BuildPayload(run.m,
                 [i \in DOMAIN run.batch |-> insights[run.m][run.batch[i]].data],
                 run.payload.last_compressed_at)

\* worker w is at or past the Summarizer call of a run with a batch
AtOrPastCall(w) ==
    /\ procs[w].name = "compress"
    /\ procs[w].pc \in {"c_summarize", "c_board", "c_commit"}

C29_Isolated ==
    AtOrPastCall(1) =>
        LET run == procs[1] IN
        /\ [run.payload EXCEPT !.summary = NoSummary] = Deterministic(1)
        /\ run.pc = "c_summarize" =>
              (run.use_ai /\ run.payload.summary = NoSummary)
        /\ ~run.use_ai =>
              /\ run.calls = 0
              /\ run.attempts = 0
              /\ run.api = "not_called"
              /\ run.payload.summary = NoSummary

\* the commit stores the payload as it stands after the call
C29_Step ==
    (procs[1].name = "compress" /\ procs[1].pc = "c_commit" /\ procs'[1].pc = "done"
        /\ procs'[1].err = "none")
        => SlotOf(boards', S, M).payload = procs[1].payload

\* C29 (Summarizer isolation): the Summarizer is called only after the
\* pattern lists, flags and total_sessions_analyzed of the payload are
\* computed, never when use_ai = false (the summary stays null), and every
\* field of the stored payload but the summary is the same whether the
\* Summarizer succeeds, fails or is not used.
C29_SummarizerIsolation == [](C29_Isolated) /\ [][C29_Step]_vars

\* a run whose Summarizer call failed is about to commit its payload
C29_Witness ==
    /\ procs[1].name = "compress"
    /\ procs[1].pc = "c_commit"
    /\ procs[1].use_ai
    /\ procs[1].api = "api_exception"
    /\ procs[1].payload.summary = AnalysisComplete
    /\ procs[1].payload.total_sessions_analyzed = 2

\* an extract or compress for (op'.s, op'.m) and what it must leave alone
C30_Step ==
    op'.name \in {"extract", "compress"} =>
        /\ \A s \in Students \ {op'.s} : boards'[s] = boards[s]
        /\ \A m \in Modules \ {op'.m} :
              /\ SlotOf(boards', op'.s, m) = SlotOf(boards, op'.s, m)
              /\ insights'[m] = insights[m]
        /\ \A i \in DOMAIN insights[op'.m] :
              insights[op'.m][i].student_id # op'.s
                  => insights'[op'.m][i] = insights[op'.m][i]

\* C30 (module and student isolation): an extract or compress for (s, m)
\* leaves unchanged the slots, timestamps and counters of the other four
\* modules of s, every Insight of the other modules, and the board and the
\* Insights of every other student.
C30_Isolation == [][C30_Step]_vars

\* a compression for (s, m) has run while another student has an
\* uncompressed Insight in the same table and s has an Insight counted in
\* another module
C30_Witness ==
    /\ op.name = "compress"
    /\ op.batch # <<>>
    /\ \E i \in DOMAIN insights[op.m] :
          insights[op.m][i].student_id # op.s /\ ~insights[op.m][i].is_compressed
    /\ \E m \in Modules \ {op.m} : SlotOf(boards, op.s, m).counter > 0

====
